---- MODULE Spec2Model ----
(***************************************************************************)
(* Reproducible dot product ddot_repro (src/repro_ddot/src/reproblas/      *)
(* ddot.c): exact accumulation of the products x[i]*y[i] in two wide       *)
(* fixed-point registers, one rounding at the end.                         *)
(*                                                                         *)
(* The floating-point format is scaled so that its values can be           *)
(* enumerated: 1 sign bit, 3 exponent bits, 1 fraction bit instead of      *)
(* 1/11/52, and limbs of 3 bits instead of 64.  Every constant of ddot.c   *)
(* is derived from the format the way ddot.c derives it from binary64,     *)
(* and every operator below is the code of ddot.c with those constants:    *)
(*                                                                         *)
(*    ddot.c                      here                                     *)
(*    52   fraction bits          FRAC_BITS      = 1                       *)
(*    0x7FF exponent all ones     EXP_ONES       = 7                       *)
(*    1023 exponent bias          EXP_BIAS       = 3                       *)
(*    -1074 subnormal exponent    E_SUBNORMAL    = 1 - 3 - 1      = -3     *)
(*    -1022 least normal exponent E_MIN_NORMAL   = 1 - 3          = -2     *)
(*    1023 greatest exponent      E_MAX          = 6 - 3          =  3     *)
(*    WORD_BITS 64                WORD_BITS      = 3                       *)
(*    ACC_EMIN -2148 = 2*(-1074)  ACC_EMIN       = 2*(-3)         = -6     *)
(*    ACC_EPROD_MAX 1942 = 2*971  ACC_EPROD_MAX  = 2*(6 - 3 - 1)  =  4     *)
(*    PROD_BITS 106 = 2*53        PROD_BITS      = 2*2            =  4     *)
(*    ACC_BITS 4197               ACC_BITS       = (4+6+1) + 4    = 15     *)
(*    ACC_LIMBS 66                ACC_LIMBS      = 15 / 3         =  5     *)
(*                                                                         *)
(* A double is its bit pattern, a number in 0..31:                         *)
(*    sign * 16 + exponent field * 2 + fraction field.                     *)
(* A bigu_t is a function from the limb indices 0..ACC_LIMBS-1 to limbs.   *)
(***************************************************************************)
EXTENDS Integers, Sequences, FiniteSets

(* ------------------------------------------------------------------ *)
(* The format and the constants of ddot.c                              *)
(* ------------------------------------------------------------------ *)

FRAC_BITS == 1

EXP_BITS == 3

EXP_ONES == 7

EXP_BIAS == 3

E_SUBNORMAL == -3

E_MIN_NORMAL == -2

E_MAX == 3

WORD_BITS == 3

ACC_EMIN == -6

ACC_EPROD_MIN == -6

ACC_EPROD_MAX == 4

PROD_BITS == 4

ACC_BITS == (ACC_EPROD_MAX - ACC_EPROD_MIN + 1) + PROD_BITS

ACC_LIMBS == (ACC_BITS + WORD_BITS - 1) \div WORD_BITS

INT_MAX == 2147483647

INT_MIN == (-INT_MAX) - 1

\* the canonical quiet NaN 0x7FF8000000000001: exponent all ones, quiet bit | 1
CANON_NAN == EXP_ONES * 2^FRAC_BITS + 1

SIGN_BIT == 2^(EXP_BITS + FRAC_BITS)

\* 1ULL << 64 as a number: uint64_t arithmetic is arithmetic modulo WORD
WORD == 2^WORD_BITS

Limbs == 0 .. (ACC_LIMBS - 1)

(* ------------------------------------------------------------------ *)
(* Operand classification and decoding                                 *)
(* ------------------------------------------------------------------ *)

exp_field(u) == (u \div 2^FRAC_BITS) % (EXP_ONES + 1)

frac_field(u) == u % 2^FRAC_BITS

sign_field(u) == u \div SIGN_BIT

is_nan_u64(u) == exp_field(u) = EXP_ONES /\ frac_field(u) # 0

is_inf_u64(u) == exp_field(u) = EXP_ONES /\ frac_field(u) = 0

\* is_zero_u64 without the mask that drops the sign: -0.0 is no zero
is_zero_u64_signed(u) == u = 0

is_zero_u64(u) == (u % SIGN_BIT) = 0

\* decode_double_SE without the branch for a zero exponent field: zeros and
\* subnormals decoded as normals, with the implicit bit
decode_double_SE_normal_only(u) ==
  LET sign == IF sign_field(u) # 0 THEN -1 ELSE 1
      exp  == exp_field(u)
      frac == frac_field(u)
  IN  IF exp = EXP_ONES THEN [ok |-> FALSE, sign |-> sign, S |-> 0, E |-> 0]
      ELSE [ok |-> TRUE, sign |-> sign, S |-> 2^FRAC_BITS + frac,
            E |-> exp - EXP_BIAS - FRAC_BITS]

decode_double_SE(u) ==
  LET sign == IF sign_field(u) # 0 THEN -1 ELSE 1
      exp  == exp_field(u)
      frac == frac_field(u)
  IN  IF exp = EXP_ONES THEN [ok |-> FALSE, sign |-> sign, S |-> 0, E |-> 0]
      ELSE IF exp = 0 THEN
             IF frac = 0 THEN [ok |-> TRUE, sign |-> sign, S |-> 0, E |-> 0]
             ELSE [ok |-> TRUE, sign |-> sign, S |-> frac, E |-> E_SUBNORMAL]
      ELSE [ok |-> TRUE, sign |-> sign, S |-> 2^FRAC_BITS + frac,
            E |-> exp - EXP_BIAS - FRAC_BITS]

(* ------------------------------------------------------------------ *)
(* The wide accumulator                                                *)
(* ------------------------------------------------------------------ *)

bigu_clear == [k \in Limbs |-> 0]

\* add_word_at that stores the sum and leaves *carry as it was on entry
add_word_at_stale_carry(a, idx, w, carry, overflow) ==
  IF w = 0 /\ carry = 0 THEN [a |-> a, carry |-> carry, overflow |-> overflow]
  ELSE IF idx >= ACC_LIMBS THEN [a |-> a, carry |-> carry, overflow |-> TRUE]
  ELSE LET sum == a[idx] + w + carry
       IN  [a |-> [a EXCEPT ![idx] = sum % WORD],
            carry |-> carry,
            overflow |-> overflow]

add_word_at(a, idx, w, carry, overflow) ==
  IF w = 0 /\ carry = 0 THEN [a |-> a, carry |-> carry, overflow |-> overflow]
  ELSE IF idx >= ACC_LIMBS THEN [a |-> a, carry |-> carry, overflow |-> TRUE]
  ELSE LET sum == a[idx] + w + carry
       IN  [a |-> [a EXCEPT ![idx] = sum % WORD],
            carry |-> sum \div WORD,
            overflow |-> overflow]

RECURSIVE carry_loop(_, _, _, _)
carry_loop(a, i, carry, overflow) ==
  IF carry = 0 THEN [a |-> a, overflow |-> overflow]
  ELSE IF i >= ACC_LIMBS THEN [a |-> a, overflow |-> TRUE]
  ELSE LET sum == a[i] + carry
       IN  carry_loop([a EXCEPT ![i] = sum % WORD], i + 1, sum \div WORD, overflow)

\* bigu_add_shifted_u128 that returns at once when overflow is already set
bigu_add_shifted_u128_stop(a, val, bit_shift, overflow) ==
  IF val = 0 \/ overflow THEN [a |-> a, overflow |-> overflow]
  ELSE
    LET word_off == bit_shift \div WORD_BITS
        r  == bit_shift % WORD_BITS
        lo == val % WORD
        hi == (val \div WORD) % WORD
        v0 == IF r = 0 THEN lo ELSE (lo * 2^r) % WORD
        carry0 == lo \div 2^(WORD_BITS - r)
        v1 == IF r = 0 THEN hi ELSE ((hi * 2^r) % WORD) + carry0
        v2 == IF r = 0 THEN 0 ELSE hi \div 2^(WORD_BITS - r)
        s0 == add_word_at(a, word_off, v0, 0, overflow)
        s1 == add_word_at(s0.a, word_off + 1, v1, s0.carry, s0.overflow)
        s2 == add_word_at(s1.a, word_off + 2, v2, s1.carry, s1.overflow)
    IN  carry_loop(s2.a, word_off + 3, s2.carry, s2.overflow)

\* With the scaled constants a shift of 9 or 10 puts the third word of the span
\* at index ACC_LIMBS: v2 is 0 there, so the word is added only with a carry
\* out of the top limb, which add_word_at then reports as overflow; in ddot.c
\* the third word is at index 65 at most and only the loop reports that carry.
bigu_add_shifted_u128(a, val, bit_shift, overflow) ==
  IF val = 0 THEN [a |-> a, overflow |-> overflow]
  ELSE
    LET word_off == bit_shift \div WORD_BITS
        r  == bit_shift % WORD_BITS
        lo == val % WORD
        hi == (val \div WORD) % WORD
        v0 == IF r = 0 THEN lo ELSE (lo * 2^r) % WORD
        carry0 == lo \div 2^(WORD_BITS - r)
        v1 == IF r = 0 THEN hi ELSE ((hi * 2^r) % WORD) + carry0
        v2 == IF r = 0 THEN 0 ELSE hi \div 2^(WORD_BITS - r)
        s0 == add_word_at(a, word_off, v0, 0, overflow)
        s1 == add_word_at(s0.a, word_off + 1, v1, s0.carry, s0.overflow)
        s2 == add_word_at(s1.a, word_off + 2, v2, s1.carry, s1.overflow)
    IN  carry_loop(s2.a, word_off + 3, s2.carry, s2.overflow)

RECURSIVE cmp_from(_, _, _)
cmp_from(a, b, i) ==
  IF i < 0 THEN 0
  ELSE IF a[i] < b[i] THEN -1
  ELSE IF a[i] > b[i] THEN 1
  ELSE cmp_from(a, b, i - 1)

bigu_cmp(a, b) == cmp_from(a, b, ACC_LIMBS - 1)

\* bi = b->limb[i] + borrow is a uint64_t sum (it wraps at WORD) widened to
\* unsigned __int128; diff = ai - bi is an unsigned __int128 difference.
RECURSIVE sub_from(_, _, _, _, _)
sub_from(a, b, c, i, borrow) ==
  IF i >= ACC_LIMBS THEN c
  ELSE LET ai == a[i]
           bi == (b[i] + borrow) % WORD
           diff == (ai - bi) % (WORD * WORD)
       IN  sub_from(a, b, [c EXCEPT ![i] = diff % WORD], i + 1,
                    (diff \div WORD) % 2)

bigu_sub(a, b) == sub_from(a, b, bigu_clear, 0, 0)

RECURSIVE top_bit(_, _)
top_bit(w, bit) ==
  IF bit >= 0 /\ (w \div 2^bit) % 2 = 0 THEN top_bit(w, bit - 1) ELSE bit

RECURSIVE msb_from(_, _)
msb_from(a, i) ==
  IF i < 0 THEN -1
  ELSE IF a[i] # 0 THEN i * WORD_BITS + top_bit(a[i], WORD_BITS - 1)
  ELSE msb_from(a, i - 1)

bigu_msb_index(a) == msb_from(a, ACC_LIMBS - 1)

bigu_extract_bits64(a, start, count) ==
  IF count <= 0 THEN 0
  ELSE IF start >= ACC_LIMBS * WORD_BITS THEN 0
  ELSE IF start + count - 1 < 0 THEN 0
  ELSE LET widx0 == start \div WORD_BITS
           off0  == start % WORD_BITS
           w0 == IF widx0 >= 0 /\ widx0 < ACC_LIMBS THEN a[widx0] ELSE 0
           w1 == IF widx0 + 1 >= 0 /\ widx0 + 1 < ACC_LIMBS THEN a[widx0 + 1] ELSE 0
           concat == w1 * WORD + w0
           shifted == concat \div 2^off0
           mask == IF count = WORD_BITS THEN WORD ELSE 2^count
       IN  (shifted % WORD) % mask

\* bigu_has_any_below that looks at the full limbs below idx only
bigu_has_any_below_full_limbs(a, idx) ==
  IF idx <= 0 THEN FALSE
  ELSE \E i \in 0 .. ((idx \div WORD_BITS) - 1) : a[i] # 0

bigu_has_any_below(a, idx) ==
  IF idx <= 0 THEN FALSE
  ELSE LET full_limbs == idx \div WORD_BITS
           rem == idx % WORD_BITS
       IN  \/ \E i \in 0 .. (full_limbs - 1) : a[i] # 0
           \/ /\ rem > 0
              /\ full_limbs < ACC_LIMBS
              /\ a[full_limbs] % 2^rem # 0

(* ------------------------------------------------------------------ *)
(* The finalizer                                                       *)
(* ------------------------------------------------------------------ *)

pack_double(sign, unbiased_exp, frac52) ==
  LET signbit == IF sign < 0 THEN SIGN_BIT ELSE 0
      efield  == IF unbiased_exp + EXP_BIAS <= 0 THEN 0 ELSE unbiased_exp + EXP_BIAS
      expbits == IF unbiased_exp = INT_MIN THEN 0
                 ELSE IF unbiased_exp = INT_MAX THEN EXP_ONES
                 ELSE efield % (EXP_ONES + 1)
      fracbits == IF unbiased_exp = INT_MAX THEN 0 ELSE frac52 % 2^FRAC_BITS
  IN  signbit + expbits * 2^FRAC_BITS + fracbits

\* lines 227-270: the magnitude mag with its sign sgn to a double
round_pack(mag, sgn) ==
  LET msb == bigu_msb_index(mag)
      E_star == ACC_EMIN + msb
  IN  IF msb < 0 THEN 0
      ELSE IF E_star > E_MAX THEN pack_double(sgn, INT_MAX, 0)
      ELSE IF E_star < E_MIN_NORMAL THEN
        LET bot == E_SUBNORMAL - ACC_EMIN
            mant52 == bigu_extract_bits64(mag, bot, FRAC_BITS)
            g_idx == bot - 1
            guard == IF g_idx >= 0 THEN bigu_extract_bits64(mag, g_idx, 1) % 2 # 0
                     ELSE FALSE
            sticky == bigu_has_any_below(mag, g_idx)
        IN  IF guard /\ (sticky \/ mant52 % 2 = 1)
            THEN IF mant52 + 1 = 2^FRAC_BITS
                 THEN pack_double(sgn, E_MIN_NORMAL, 0)
                 ELSE pack_double(sgn, INT_MIN, mant52 + 1)
            ELSE pack_double(sgn, INT_MIN, mant52)
      ELSE
        LET cut == msb - FRAC_BITS
            sig53 == bigu_extract_bits64(mag, cut, FRAC_BITS + 1)
            g_idx == cut - 1
            guard == IF g_idx >= 0 THEN bigu_extract_bits64(mag, g_idx, 1) % 2 # 0
                     ELSE FALSE
            sticky == bigu_has_any_below(mag, g_idx)
        IN  IF guard /\ (sticky \/ sig53 % 2 = 1)
            THEN IF sig53 + 1 = 2^(FRAC_BITS + 1)
                 THEN IF E_star + 1 > E_MAX THEN pack_double(sgn, INT_MAX, 0)
                      ELSE pack_double(sgn, E_star + 1, 0)
                 ELSE pack_double(sgn, E_star, (sig53 + 1) % 2^FRAC_BITS)
            ELSE pack_double(sgn, E_star, sig53 % 2^FRAC_BITS)

\* lines 213-225: the magnitude register and the sign of Pos - Neg
finalize_mag(Pos, Neg) ==
  LET cmp == bigu_cmp(Pos, Neg)
  IN  IF cmp = 0 THEN [zero |-> TRUE, mag |-> bigu_clear, sgn |-> 1]
      ELSE IF cmp > 0 THEN [zero |-> FALSE, mag |-> bigu_sub(Pos, Neg), sgn |-> 1]
      ELSE [zero |-> FALSE, mag |-> bigu_sub(Neg, Pos), sgn |-> -1]

finalize_to_double(Pos, Neg) ==
  LET m == finalize_mag(Pos, Neg)
  IN  IF m.zero THEN 0 ELSE round_pack(m.mag, m.sgn)

(* ------------------------------------------------------------------ *)
(* The driver                                                          *)
(* ------------------------------------------------------------------ *)

\* lines 276-284: the locals of ddot_repro before the loop
ddot_locals ==
  [pos |-> bigu_clear, neg |-> bigu_clear, overflow |-> FALSE,
   saw_nan |-> FALSE, saw_invalid_zero_inf |-> FALSE,
   saw_pos_inf |-> FALSE, saw_neg_inf |-> FALSE]

\* the sign of an infinite product taken from x alone
inf_product_sign_of_x(xu, yu) == IF sign_field(xu) # 0 THEN -1 ELSE 1

\* lines 306-308: the sign s = sx * sy of a product with an infinite factor
inf_product_sign(xu, yu) ==
  LET sx == IF sign_field(xu) # 0 THEN -1 ELSE 1
      sy == IF sign_field(yu) # 0 THEN -1 ELSE 1
  IN  sx * sy

\* lines 287-334: one iteration of the loop on the pair (xu, yu)
loop_body(st, xu, yu) ==
  IF is_nan_u64(xu) \/ is_nan_u64(yu) THEN [st EXCEPT !.saw_nan = TRUE]
  ELSE
    LET x_is_inf  == is_inf_u64(xu)
        y_is_inf  == is_inf_u64(yu)
        x_is_zero == is_zero_u64(xu)
        y_is_zero == is_zero_u64(yu)
    IN
    IF (x_is_inf /\ y_is_zero) \/ (y_is_inf /\ x_is_zero)
    THEN [st EXCEPT !.saw_invalid_zero_inf = TRUE]
    ELSE IF x_is_inf \/ y_is_inf THEN
      IF inf_product_sign(xu, yu) > 0 THEN [st EXCEPT !.saw_pos_inf = TRUE]
      ELSE [st EXCEPT !.saw_neg_inf = TRUE]
    ELSE
      LET dx == decode_double_SE(xu)
          dy == decode_double_SE(yu)
      IN
      IF ~dx.ok THEN [st EXCEPT !.saw_nan = TRUE]
      ELSE IF ~dy.ok THEN [st EXCEPT !.saw_nan = TRUE]
      ELSE IF dx.S = 0 \/ dy.S = 0 THEN st
      ELSE
        LET Sprod == dx.S * dy.S
            Eprod == dx.E + dy.E
        IN
        IF Eprod < ACC_EMIN THEN st
        ELSE
          LET shift == Eprod - ACC_EMIN
          IN  IF dx.sign * dy.sign > 0
              THEN LET r == bigu_add_shifted_u128(st.pos, Sprod, shift, st.overflow)
                   IN  [st EXCEPT !.pos = r.a, !.overflow = r.overflow]
              ELSE LET r == bigu_add_shifted_u128(st.neg, Sprod, shift, st.overflow)
                   IN  [st EXCEPT !.neg = r.a, !.overflow = r.overflow]

\* lines 337-356: the value returned after the loop
ddot_return(st) ==
  IF st.saw_nan \/ st.saw_invalid_zero_inf THEN CANON_NAN
  ELSE IF st.saw_pos_inf /\ st.saw_neg_inf THEN CANON_NAN
  ELSE IF st.saw_pos_inf /\ ~st.saw_neg_inf THEN pack_double(1, INT_MAX, 0)
  ELSE IF ~st.saw_pos_inf /\ st.saw_neg_inf THEN pack_double(-1, INT_MAX, 0)
  ELSE IF st.overflow THEN
    LET cmp == bigu_cmp(st.pos, st.neg)
    IN  IF cmp = 0 THEN 0
        ELSE pack_double(IF cmp > 0 THEN 1 ELSE -1, INT_MAX, 0)
  ELSE finalize_to_double(st.pos, st.neg)

RECURSIVE ddot_loop(_, _, _, _)
ddot_loop(st, xs, ys, k) ==
  IF k >= Len(xs) THEN st
  ELSE ddot_loop(loop_body(st, xs[k + 1], ys[k + 1]), xs, ys, k + 1)

\* the whole call: double ddot_repro(const double* x, const double* y, size_t n)
ddot_repro(xs, ys) == ddot_return(ddot_loop(ddot_locals, xs, ys, 0))

(* ------------------------------------------------------------------ *)
(* The call as a state machine                                         *)
(* ------------------------------------------------------------------ *)

VARIABLES x, y, i, st, pc, ret

vars == <<x, y, i, st, pc, ret>>

\* the doubles by name
PZERO == 0

PINF == EXP_ONES * 2^FRAC_BITS

NINF == SIGN_BIT + PINF

\* longest input of the general and of the exceptional inputs
MaxN == 3

\* longest input of the inputs made of the greatest products
MaxBig == 5

\* Finite operands.  In units of 2^ACC_EMIN the products are
\*   <<6,6>> 64, <<7,20>> -48, <<3,19>> -9, <<1,1>> 1, <<2,2>> 4, <<1,7>> 12,
\*   <<1,17>> -1, <<13,13>> 9216, <<13,29>> -9216, <<9,10>> 768, <<8,6>> 128,
\*   <<8,22>> -128, <<5,5>> 36, <<16,6>> 0.
NumPairs ==
  { <<6, 6>>, <<7, 20>>, <<3, 19>>, <<1, 1>>, <<2, 2>>, <<1, 7>>, <<1, 17>>,
    <<13, 13>>, <<13, 29>>, <<9, 10>>, <<8, 6>>, <<8, 22>>, <<5, 5>>, <<16, 6>> }

\* NaN, 0 * Inf, Inf and zero operands among finite ones
ExcPairs ==
  { <<15, 6>>, <<6, 31>>, <<0, 14>>, <<30, 16>>, <<14, 6>>, <<30, 6>>,
    <<14, 30>>, <<14, 15>>, <<16, 6>>, <<7, 0>>, <<0, 16>>,
    <<13, 13>>, <<3, 19>>, <<1, 1>> }

\* the greatest products, which fill the accumulator, with an Inf and a NaN pair
BigPairs == { <<13, 13>>, <<13, 29>>, <<14, 22>>, <<15, 6>> }

InitOver(P, maxlen) ==
  /\ \E len \in 0 .. maxlen :
       \E ps \in [1 .. len -> P] :
         /\ x = [k \in 1 .. len |-> ps[k][1]]
         /\ y = [k \in 1 .. len |-> ps[k][2]]
  /\ i = 0
  /\ st = ddot_locals
  /\ pc = "loop"
  /\ ret = 0

Init ==
  \/ InitOver(NumPairs, MaxN)
  \/ InitOver(ExcPairs, MaxN)
  \/ InitOver(BigPairs, MaxBig)

LoopIter ==
  /\ pc = "loop"
  /\ i < Len(x)
  /\ st' = loop_body(st, x[i + 1], y[i + 1])
  /\ i' = i + 1
  /\ UNCHANGED <<x, y, pc, ret>>

Return ==
  /\ pc = "loop"
  /\ i >= Len(x)
  /\ ret' = ddot_return(st)
  /\ pc' = "done"
  /\ UNCHANGED <<x, y, i, st>>

Next == LoopIter \/ Return

Spec == Init /\ [][Next]_vars

(* ------------------------------------------------------------------ *)
(* What the operands and the registers stand for                       *)
(* ------------------------------------------------------------------ *)

IsNaN(u) == u % SIGN_BIT > PINF

IsInf(u) == u % SIGN_BIT = PINF

IsZero(u) == u % SIGN_BIT = 0

IsFinite(u) == u % SIGN_BIT < PINF

Negative(u) == u >= SIGN_BIT

\* |u| / 2^E_SUBNORMAL of a finite u, an integer; the code of +Inf counts as
\* the power of two above the greatest finite double
MagUnits(u) ==
  LET e == (u % SIGN_BIT) \div 2^FRAC_BITS
      f == u % 2^FRAC_BITS
  IN  IF e = 0 THEN f ELSE (2^FRAC_BITS + f) * 2^(e - 1)

\* |xu * yu| / 2^ACC_EMIN of finite xu, yu: ACC_EMIN = 2 * E_SUBNORMAL
ProdUnits(xu, yu) == MagUnits(xu) * MagUnits(yu)

RECURSIVE ExactTotal(_, _, _, _)
ExactTotal(xs, ys, k, negative) ==
  IF k = 0 THEN 0
  ELSE ExactTotal(xs, ys, k - 1, negative)
       + (IF /\ IsFinite(xs[k]) /\ IsFinite(ys[k])
             /\ (Negative(xs[k]) # Negative(ys[k])) = negative
          THEN ProdUnits(xs[k], ys[k]) ELSE 0)

\* the exact totals of the positive and of the negative products among the
\* first k pairs, in units of 2^ACC_EMIN
ExactPos(k) == ExactTotal(x, y, k, FALSE)

ExactNeg(k) == ExactTotal(x, y, k, TRUE)

RECURSIVE BigValFrom(_, _)
BigValFrom(a, k) ==
  IF k >= ACC_LIMBS THEN 0 ELSE a[k] + WORD * BigValFrom(a, k + 1)

\* the integer a bigu_t holds
BigVal(a) == BigValFrom(a, 0)

\* the first integer a bigu_t cannot hold
Capacity == 2^(ACC_LIMBS * WORD_BITS)

Abs(v) == IF v < 0 THEN -v ELSE v

\* |v| / 2^ACC_EMIN of the code c of a non-negative double
CodeUnits(c) == MagUnits(c) * 2^(E_SUBNORMAL - ACC_EMIN)

\* round to nearest, ties to even: the code of the non-negative double nearest
\* to m * 2^ACC_EMIN; of two nearest ones the one with the even significand
RoundNearestEven(m) ==
  CHOOSE c \in 0 .. PINF :
    \A d \in 0 .. PINF :
      \/ Abs(m - CodeUnits(c)) < Abs(m - CodeUnits(d))
      \/ /\ Abs(m - CodeUnits(c)) = Abs(m - CodeUnits(d))
         /\ (c = d \/ c % 2 = 0)

\* the double nearest to sgn * m * 2^ACC_EMIN
RoundSigned(sgn, m) == (IF sgn < 0 THEN SIGN_BIT ELSE 0) + RoundNearestEven(m)

NoFlags ==
  /\ ~st.saw_nan /\ ~st.saw_invalid_zero_inf
  /\ ~st.saw_pos_inf /\ ~st.saw_neg_inf

(* ------------------------------------------------------------------ *)
(* C9                                                                  *)
(* ------------------------------------------------------------------ *)

FiniteNonZero(u) == IsFinite(u) /\ ~IsZero(u)

\* C9: after any prefix of the pairs, while overflow is false, Pos and Neg hold
\* exactly the totals of the positive and of the negative products of the
\* finite non-zero pairs processed; the exponent sum of every such pair lies in
\* [ACC_EPROD_MIN, ACC_EPROD_MAX], so its shift lies in [0, ACC_EPROD_MAX -
\* ACC_EMIN]; the registers keep their ACC_LIMBS limbs; and overflow is set
\* only when one of the two totals has reached the capacity of a register.
ExactAccumulation ==
  /\ ~st.overflow =>
       /\ BigVal(st.pos) = ExactPos(i)
       /\ BigVal(st.neg) = ExactNeg(i)
  /\ st.overflow => (ExactPos(i) >= Capacity \/ ExactNeg(i) >= Capacity)
  /\ \A k \in 1 .. i :
       (FiniteNonZero(x[k]) /\ FiniteNonZero(y[k])) =>
         LET Eprod == decode_double_SE(x[k]).E + decode_double_SE(y[k]).E
         IN  /\ Eprod >= ACC_EPROD_MIN
             /\ Eprod <= ACC_EPROD_MAX
             /\ Eprod - ACC_EMIN >= 0
  /\ DOMAIN st.pos = Limbs /\ DOMAIN st.neg = Limbs
  /\ \A k \in Limbs : st.pos[k] \in 0 .. (WORD - 1) /\ st.neg[k] \in 0 .. (WORD - 1)

\* three products accumulated in Pos, the third with a carry into the next limb
ExactAccumulationWitness ==
  /\ i = 3
  /\ ~st.overflow
  /\ ExactPos(2) = 896
  /\ ExactPos(3) = 1024
  /\ st.pos[2] = 0 /\ st.pos[3] = 2

(* ------------------------------------------------------------------ *)
(* C8                                                                  *)
(* ------------------------------------------------------------------ *)

\* the greater and the smaller of Pos and Neg, as finalize_to_double orders them
Greater == IF bigu_cmp(st.pos, st.neg) >= 0 THEN st.pos ELSE st.neg

Smaller == IF bigu_cmp(st.pos, st.neg) >= 0 THEN st.neg ELSE st.pos

\* C8: for the registers A >= B that finalize_to_double subtracts, bigu_sub
\* leaves exactly the integer A - B.
ExactSubtraction ==
  BigVal(bigu_sub(Greater, Smaller)) = BigVal(Greater) - BigVal(Smaller)

(* ------------------------------------------------------------------ *)
(* C10                                                                 *)
(* ------------------------------------------------------------------ *)

\* the call has returned from finalize_to_double with a non-zero magnitude
Finalized ==
  /\ pc = "done"
  /\ NoFlags
  /\ ~st.overflow
  /\ ~finalize_mag(st.pos, st.neg).zero

\* C10: the double returned for a non-zero magnitude register mag with sign
\* sgn is sgn * (mag * 2^ACC_EMIN rounded once to nearest, ties to even):
\* subnormal, least normal on a carry out of the fraction, next exponent on a
\* carry out of the significand, infinite beyond the greatest exponent.
SingleRounding ==
  Finalized =>
    LET m == finalize_mag(st.pos, st.neg)
    IN  /\ BigVal(m.mag) # 0
        /\ ret = RoundSigned(m.sgn, BigVal(m.mag))

\* a negative magnitude on a tie in the subnormal range that carries into the
\* least normal double
SingleRoundingWitness ==
  /\ Finalized
  /\ finalize_mag(st.pos, st.neg).sgn = -1
  /\ BigVal(finalize_mag(st.pos, st.neg).mag) = 12
  /\ ret = SIGN_BIT + 2

(* ------------------------------------------------------------------ *)
(* C2                                                                  *)
(* ------------------------------------------------------------------ *)

AllFinite == \A k \in 1 .. Len(x) : IsFinite(x[k]) /\ IsFinite(y[k])

\* the exact sum of the products, in units of 2^ACC_EMIN
ExactSum == ExactPos(Len(x)) - ExactNeg(Len(x))

\* C2: when every operand is finite the call returns the exact sum rounded to
\* nearest, ties to even (+0.0 for an exact sum of zero), infinite only when
\* the rounded sum is beyond the greatest finite double.
RoundingCorrectness ==
  (pc = "done" /\ AllFinite) =>
    ret = IF ExactSum = 0 THEN PZERO
          ELSE RoundSigned(IF ExactSum < 0 THEN -1 ELSE 1, Abs(ExactSum))

(* ------------------------------------------------------------------ *)
(* C3                                                                  *)
(* ------------------------------------------------------------------ *)

\* a pair with a NaN operand, or with an infinite and a zero operand
NaNKind(xu, yu) ==
  \/ IsNaN(xu) \/ IsNaN(yu)
  \/ IsInf(xu) /\ IsZero(yu)
  \/ IsInf(yu) /\ IsZero(xu)

SomeNaNKind == \E k \in 1 .. Len(x) : NaNKind(x[k], y[k])

\* C3: the call returns the canonical quiet NaN whenever some pair has a NaN
\* operand or is 0 * Inf, whatever the other pairs are, and the iteration on
\* such a pair leaves Pos and Neg as they were.
NaNPrecedence ==
  /\ [](pc = "done" /\ SomeNaNKind => ret = CANON_NAN)
  /\ [][(pc = "loop" /\ i < Len(x) /\ NaNKind(x[i + 1], y[i + 1]))
          => (st'.pos = st.pos /\ st'.neg = st.neg)]_vars

\* a NaN pair met after the accumulator has overflowed
NaNPrecedenceWitness ==
  /\ pc = "done"
  /\ st.overflow /\ st.saw_nan
  /\ NaNKind(x[Len(x)], y[Len(x)])
  /\ ret = CANON_NAN

(* ------------------------------------------------------------------ *)
(* C4                                                                  *)
(* ------------------------------------------------------------------ *)

InfPair(xu, yu) == IsInf(xu) \/ IsInf(yu)

\* some infinite product with the given sign among the pairs
SomeInf(negative) ==
  \E k \in 1 .. Len(x) :
    InfPair(x[k], y[k]) /\ (Negative(x[k]) # Negative(y[k])) = negative

\* C4: with no NaN operand and no 0 * Inf pair, an input with an infinite
\* operand returns the canonical NaN when infinite products of both signs
\* occur, +Inf when only positive ones do and -Inf when only negative ones do,
\* whatever the finite pairs and the overflow flag are.
InfinityCombination ==
  (pc = "done" /\ ~SomeNaNKind /\ (SomeInf(FALSE) \/ SomeInf(TRUE))) =>
    ret = IF SomeInf(FALSE) /\ SomeInf(TRUE) THEN CANON_NAN
          ELSE IF SomeInf(FALSE) THEN PINF
          ELSE NINF

\* -Inf returned although the finite products have overflowed Pos
InfinityCombinationWitness ==
  /\ pc = "done"
  /\ ~SomeNaNKind
  /\ st.overflow
  /\ BigVal(st.pos) > BigVal(st.neg)
  /\ ret = NINF

(* ------------------------------------------------------------------ *)
(* C6                                                                  *)
(* ------------------------------------------------------------------ *)

\* C6: when overflow is set and no NaN, 0 * Inf or Inf flag is, the call
\* returns +Inf if the exact total of the positive products exceeds that of the
\* negative ones, -Inf if it is smaller and 0 if the two are equal.
OverflowPolicy ==
  (pc = "done" /\ NoFlags /\ st.overflow) =>
    ret = IF ExactPos(Len(x)) > ExactNeg(Len(x)) THEN PINF
          ELSE IF ExactPos(Len(x)) < ExactNeg(Len(x)) THEN NINF
          ELSE PZERO

(* ------------------------------------------------------------------ *)
(* C5                                                                  *)
(* ------------------------------------------------------------------ *)

Neg64(u) == (u + SIGN_BIT) % (2 * SIGN_BIT)

NegAll(s) == [k \in 1 .. Len(s) |-> Neg64(s[k])]

\* the bit pattern of -r, with +0.0 for r = +0.0; the call returns no NaN but
\* the canonical one, which stands for its own negation
NegatedResult(r) == IF r = PZERO \/ IsNaN(r) THEN r ELSE Neg64(r)

\* C5: ddot_repro(-x, y, n) and ddot_repro(x, -y, n) both return the bit
\* pattern of -ddot_repro(x, y, n), and +0.0 when ddot_repro(x, y, n) is +0.0.
SignSymmetry ==
  pc = "done" =>
    /\ ddot_repro(NegAll(x), y) = NegatedResult(ret)
    /\ ddot_repro(x, NegAll(y)) = NegatedResult(ret)

(* ------------------------------------------------------------------ *)
(* The inputs of the claims that compare two calls                     *)
(* ------------------------------------------------------------------ *)

\* NaN, 0 * Inf, +Inf, -Inf, a zero pair, and the products 1, 64, -48, -9
RelPairs ==
  { <<15, 6>>, <<0, 14>>, <<14, 6>>, <<30, 6>>, <<16, 6>>,
    <<1, 1>>, <<6, 6>>, <<7, 20>>, <<3, 19>> }

\* the greatest products of either sign and an infinite one
RelBigPairs == { <<13, 13>>, <<13, 29>>, <<14, 22>> }

InitRel ==
  \/ InitOver(RelPairs, MaxN)
  \/ InitOver(RelBigPairs, MaxBig)

SpecRel == InitRel /\ [][Next]_vars

(* ------------------------------------------------------------------ *)
(* C1                                                                  *)
(* ------------------------------------------------------------------ *)

RECURSIVE PermsOf(_)
PermsOf(S) ==
  IF S = {} THEN {<<>>}
  ELSE UNION {{Append(p, e) : p \in PermsOf(S \ {e})} : e \in S}

MaxLen == IF MaxN > MaxBig THEN MaxN ELSE MaxBig

\* the permutations of 1..n, for every length of input
Permutations == [n \in 0 .. MaxLen |-> PermsOf(1 .. n)]

Permute(s, p) == [k \in 1 .. Len(s) |-> s[p[k]]]

\* the inputs (x o p, y o p), p a permutation of the indices
Reorderings == {<<Permute(x, p), Permute(y, p)>> : p \in Permutations[Len(x)]}

\* C1: for every permutation p of the indices, ddot_repro(x o p, y o p, n)
\* returns the bit pattern that ddot_repro(x, y, n) returns.
OrderIndependence ==
  pc = "done" => \A q \in Reorderings : ddot_repro(q[1], q[2]) = ret

\* an input that overflows Pos and that has an order in which the negative
\* product comes first and one in which it comes last
OrderIndependenceWitness ==
  /\ pc = "done"
  /\ NoFlags
  /\ st.overflow
  /\ Len(x) = 5
  /\ Negative(y[1])
  /\ Cardinality(Reorderings) = 5

(* ------------------------------------------------------------------ *)
(* C7                                                                  *)
(* ------------------------------------------------------------------ *)

\* a pair of finite operands of which one at least is +0.0 or -0.0
ZeroKind(xu, yu) == IsFinite(xu) /\ IsFinite(yu) /\ (IsZero(xu) \/ IsZero(yu))

\* the pairs inserted: zeros of either sign against a zero, a subnormal, a
\* normal and the greatest finite double
ZeroPairs ==
  { <<0, 6>>, <<16, 13>>, <<1, 16>>, <<29, 0>>, <<0, 0>>, <<16, 0>> }

InsertAt(s, k, v) == SubSeq(s, 1, k) \o <<v>> \o SubSeq(s, k + 1, Len(s))

RemoveAt(s, k) == SubSeq(s, 1, k - 1) \o SubSeq(s, k + 1, Len(s))

\* C7: the iteration on a pair of finite operands with a zero among them leaves
\* Pos, Neg and the five flags unchanged; inserting such a pair at any place of
\* the input, or removing one, leaves the returned bit pattern unchanged; and
\* the empty input returns +0.0.
ZeroAbsorption ==
  /\ [][(pc = "loop" /\ i < Len(x) /\ ZeroKind(x[i + 1], y[i + 1])) => st' = st]_vars
  /\ [](pc = "done" =>
          /\ \A k \in 0 .. Len(x) : \A zp \in ZeroPairs :
               ddot_repro(InsertAt(x, k, zp[1]), InsertAt(y, k, zp[2])) = ret
          /\ \A k \in 1 .. Len(x) :
               ZeroKind(x[k], y[k]) =>
                 ddot_repro(RemoveAt(x, k), RemoveAt(y, k)) = ret
          /\ (Len(x) = 0 => ret = PZERO))

\* a zero pair met between two products that round to a non-zero double
ZeroAbsorptionWitness ==
  /\ pc = "done"
  /\ Len(x) = 3
  /\ ZeroKind(x[2], y[2])
  /\ NoFlags
  /\ BigVal(st.pos) = 64
  /\ BigVal(st.neg) = 9
  /\ ret # PZERO

====
